---- MODULE Spec2Model ----
(***************************************************************************)
(* Model of hangman_advanced.py: the word store, the high-score store, the *)
(* round engine of play_hangman and the menu loop of main.                 *)
(*                                                                         *)
(* A text (a file line, a keyboard line, a word, a category name) is a     *)
(* sequence of one-character strings.  One action is the code that runs    *)
(* between two blocking input() calls.                                     *)
(***************************************************************************)
EXTENDS Integers, Sequences, FiniteSets

VARIABLES
    pc,                 \* which input() the process is blocked on, or "start"/"exited"
    words_file,         \* words.txt on disk: [exists, lines]
    hs_file,            \* high_scores.json on disk: [kind, entries]
    load_failed,        \* load_words raised SystemExit
    exit_status,        \* process exit status once pc = "exited" (NotExited before)
    all_categories,     \* main: all_categories (category name -> sequence of words)
    high_scores,        \* main: high_scores (the session's list)
    rounds,             \* rounds started in this session
    round_cap,          \* rounds the player starts before only viewing or quitting
    category,           \* play_hangman locals
    difficulty,
    secret_word,
    guessed_letters,
    incorrect_guesses,
    word_progress,
    remaining_lives,
    hints_available,
    score,
    game_result,        \* value returned by play_hangman: [over, won, score]
    notice,             \* the last message printed to the player
    correct_count,      \* history: accepted letters that were in the word
    incorrect_count,    \* history: accepted letters that were not in the word
    hint_count          \* history: hints applied by the engine

vars == <<pc, words_file, hs_file, load_failed, exit_status, all_categories,
          high_scores, rounds, round_cap, category, difficulty, secret_word,
          guessed_letters, incorrect_guesses, word_progress, remaining_lives,
          hints_available, score, game_result, notice, correct_count,
          incorrect_count, hint_count>>

round_vars == <<category, difficulty, secret_word, guessed_letters,
                incorrect_guesses, word_progress, remaining_lives,
                hints_available, score, correct_count, incorrect_count,
                hint_count>>

store_vars == <<words_file, hs_file, load_failed, all_categories, high_scores>>

---------------------------------------------------------------------------
(* Bounds of the model *)

\* how many letters of LetterPool the player's keyboard can produce
NumLetters == 8

\* rounds per session in the leaderboard scenario
MaxRounds == 2

\* longest word-list file (in lines) of the word-store specification
MaxLines == 4

---------------------------------------------------------------------------
(* Program constants *)

MAX_HIGH_SCORES == 10

SCORE_CORRECT_GUESS == 10

SCORE_INCORRECT_GUESS == -5

SCORE_HINT_PENALTY == -15

SCORE_WIN_BONUS == 50

DifficultyNames == {"easy", "medium", "hard"}

DIFFICULTY_LEVELS == [d \in DifficultyNames |->
                        CASE d = "easy" -> 8 [] d = "medium" -> 6 [] d = "hard" -> 4]

ascii_uppercase == <<"A","B","C","D","E","F","G","H","I","J","K","L","M",
                     "N","O","P","Q","R","S","T","U","V","W","X","Y","Z">>

ascii_lowercase == <<"a","b","c","d","e","f","g","h","i","j","k","l","m",
                     "n","o","p","q","r","s","t","u","v","w","x","y","z">>

UpperSet == {ascii_uppercase[i] : i \in 1..26}

NotExited == -1

---------------------------------------------------------------------------
(* Text helpers: str.upper, str.strip, str.startswith, str.endswith *)

UpperChar(c) ==
    IF \E i \in 1..26 : ascii_lowercase[i] = c
    THEN ascii_uppercase[CHOOSE i \in 1..26 : ascii_lowercase[i] = c]
    ELSE c

Upper(s) == [i \in 1..Len(s) |-> UpperChar(s[i])]

RECURSIVE LStrip(_)
LStrip(s) == IF s # <<>> /\ Head(s) = " " THEN LStrip(Tail(s)) ELSE s

RECURSIVE RStrip(_)
RStrip(s) == IF s # <<>> /\ s[Len(s)] = " " THEN RStrip(SubSeq(s, 1, Len(s) - 1)) ELSE s

Strip(s) == RStrip(LStrip(s))

StartsWith(s, p) == Len(s) >= Len(p) /\ SubSeq(s, 1, Len(p)) = p

EndsWith(s, p) == Len(s) >= Len(p) /\ SubSeq(s, Len(s) - Len(p) + 1, Len(s)) = p

IsWord(s) == \A i \in 1..Len(s) : s[i] \in UpperSet

---------------------------------------------------------------------------
(* Word store: load_words *)

CategoryPrefix == <<"[","C","A","T","E","G","O","R","Y"," ">>

NoCategory == <<"None">>

EmptyDict == [k \in {} |-> <<>>]

DictSet(d, k, v) == [x \in DOMAIN d \cup {k} |-> IF x = k THEN v ELSE d[x]]

\* the for loop of load_words over lines[i..], with the dictionary built so
\* far and current_category
RECURSIVE ParseLines(_, _, _, _)
ParseLines(lines, i, categories, current) ==
    IF i > Len(lines) THEN categories
    ELSE LET line == Upper(Strip(lines[i])) IN
         IF line = <<>> THEN ParseLines(lines, i + 1, categories, current)
         ELSE IF StartsWith(line, CategoryPrefix) /\ EndsWith(line, <<"]">>)
         THEN LET name == Strip(SubSeq(line, Len(CategoryPrefix) + 1, Len(line) - 1))
              IN ParseLines(lines, i + 1, DictSet(categories, name, <<>>), name)
         ELSE IF current # NoCategory /\ current # <<>> /\ ~StartsWith(line, <<"#">>)
         THEN IF IsWord(line)
              THEN ParseLines(lines, i + 1,
                              DictSet(categories, current, Append(categories[current], line)),
                              current)
              ELSE ParseLines(lines, i + 1, categories, current)
         ELSE ParseLines(lines, i + 1, categories, current)

\* variant: the categories left empty are kept
RemoveEmptyKeepsAll(categories) == categories

RemoveEmpty(categories) ==
    [k \in {c \in DOMAIN categories : categories[c] # <<>>} |-> categories[k]]

\* variant: the check after the empty categories were removed is missing
load_words_unchecked(file) ==
    IF ~file.exists THEN [exit |-> TRUE, categories |-> EmptyDict]
    ELSE IF ~file.readable THEN [exit |-> TRUE, categories |-> EmptyDict]
    ELSE LET parsed == ParseLines(file.lines, 1, EmptyDict, NoCategory) IN
         IF DOMAIN parsed = {} THEN [exit |-> TRUE, categories |-> EmptyDict]
         ELSE [exit |-> FALSE, categories |-> RemoveEmpty(parsed)]

\* [exit |-> TRUE] stands for sys.exit(1) raised inside load_words
load_words(file) ==
    IF ~file.exists THEN [exit |-> TRUE, categories |-> EmptyDict]
    ELSE IF ~file.readable THEN [exit |-> TRUE, categories |-> EmptyDict]
    ELSE LET parsed == ParseLines(file.lines, 1, EmptyDict, NoCategory) IN
         IF DOMAIN parsed = {} THEN [exit |-> TRUE, categories |-> EmptyDict]
         ELSE IF DOMAIN RemoveEmpty(parsed) = {}
              THEN [exit |-> TRUE, categories |-> EmptyDict]
              ELSE [exit |-> FALSE, categories |-> RemoveEmpty(parsed)]

---------------------------------------------------------------------------
(* High-score store: load_high_scores, save_high_scores *)

\* variant: only FileNotFoundError is caught
load_high_scores_uncaught(file) ==
    IF file.kind = "json" THEN [raised |-> FALSE, entries |-> file.entries]
    ELSE IF file.kind = "missing" THEN [raised |-> FALSE, entries |-> <<>>]
    ELSE [raised |-> TRUE, entries |-> <<>>]

\* [raised |-> TRUE] stands for an exception that leaves load_high_scores
load_high_scores(file) ==
    IF file.kind = "json" THEN [raised |-> FALSE, entries |-> file.entries]
    ELSE IF file.kind \in {"missing", "invalid"} THEN [raised |-> FALSE, entries |-> <<>>]
    ELSE [raised |-> TRUE, entries |-> <<>>]

\* list.sort(key=score, reverse=True): stable, descending
RECURSIVE InsertDesc(_, _)
InsertDesc(sorted, e) ==
    IF sorted = <<>> THEN <<e>>
    ELSE IF Head(sorted).score >= e.score
         THEN <<Head(sorted)>> \o InsertDesc(Tail(sorted), e)
         ELSE <<e>> \o sorted

RECURSIVE SortDesc(_)
SortDesc(scores) ==
    IF scores = <<>> THEN <<>>
    ELSE InsertDesc(SortDesc(SubSeq(scores, 1, Len(scores) - 1)), scores[Len(scores)])

\* variant: the slice keeps one entry too many
TruncateOffByOne(scores) ==
    IF Len(scores) > MAX_HIGH_SCORES + 1 THEN SubSeq(scores, 1, MAX_HIGH_SCORES + 1) ELSE scores

Truncate(scores) ==
    IF Len(scores) > MAX_HIGH_SCORES THEN SubSeq(scores, 1, MAX_HIGH_SCORES) ELSE scores

\* what save_high_scores leaves in the caller's list: sorted in place; the
\* slice is bound to the local name only
SavedList(scores) == SortDesc(scores)

\* what save_high_scores writes when open() and json.dump succeed
SavedFile(scores) == [kind |-> "json", entries |-> Truncate(SortDesc(scores))]

---------------------------------------------------------------------------
(* Input layer: get_player_action *)

HintWord == <<"H","I","N","T">>

\* variant: the test lets a request through with no hint left
HintAllowedAtZero(hints_left) == hints_left >= 0

\* the test that lets a hint request through
HintAllowed(hints_left) == hints_left > 0

\* variant: a letter is returned without looking at already_guessed
get_player_action_repeats(raw, already_guessed, hints_left) ==
    IF Upper(raw) = HintWord
    THEN IF HintAllowed(hints_left)
         THEN [kind |-> "hint", letter |-> "", why |-> ""]
         ELSE [kind |-> "reject", letter |-> "", why |-> "no_hints"]
    ELSE IF Len(Upper(raw)) = 1 /\ Upper(raw)[1] \in UpperSet
    THEN [kind |-> "letter", letter |-> Upper(raw)[1], why |-> ""]
    ELSE [kind |-> "reject", letter |-> "", why |-> "invalid_input"]

\* one pass of the while loop on one line of keyboard input: the value
\* returned, or the rejection printed before prompting again
get_player_action(raw, already_guessed, hints_left) ==
    LET action == Upper(raw) IN
    IF action = HintWord
    THEN IF HintAllowed(hints_left)
         THEN [kind |-> "hint", letter |-> "", why |-> ""]
         ELSE [kind |-> "reject", letter |-> "", why |-> "no_hints"]
    ELSE IF Len(action) = 1 /\ action[1] \in UpperSet
    THEN IF action[1] \in already_guessed
         THEN [kind |-> "reject", letter |-> "", why |-> "already_guessed"]
         ELSE [kind |-> "letter", letter |-> action[1], why |-> ""]
    ELSE [kind |-> "reject", letter |-> "", why |-> "invalid_input"]

---------------------------------------------------------------------------
(* Round engine: provide_hint and the body of the game loop *)

\* variant: the hint is drawn from all letters of the word
provide_hint_any(word, guessed) == {word[i] : i \in 1..Len(word)}

\* variant: the unguessed letters are taken from the alphabet
provide_hint_alphabet(word, guessed) == UpperSet \ guessed

\* the letters random.choice may return; empty when provide_hint returns None
provide_hint(word, guessed) ==
    {word[i] : i \in {j \in 1..Len(word) : word[j] \notin guessed}}

\* variant: the reveal loop stops at the first match
RevealFirstOnly(progress, word, l) ==
    [i \in 1..Len(word) |->
        IF word[i] = l /\ ~(\E j \in 1..(i - 1) : word[j] = l) THEN l ELSE progress[i]]

\* variant: the buffer is rebuilt from the one letter
RevealAlone(progress, word, l) ==
    [i \in 1..Len(word) |-> IF word[i] = l THEN l ELSE "_"]

\* for index, letter in enumerate(secret_word): if letter == l: word_progress[index] = l
Reveal(progress, word, l) ==
    [i \in 1..Len(word) |-> IF word[i] = l THEN l ELSE progress[i]]

Unrevealed(progress) == {i \in 1..Len(progress) : progress[i] = "_"}

\* variant: the loss is checked before the win
OutcomeLossFirst(progress, lives) ==
    IF lives <= 0 THEN "lost"
    ELSE IF {i \in 1..Len(progress) : progress[i] = "_"} = {} THEN "won"
    ELSE "playing"

\* variant: the loss test is lives < 0
OutcomeBelowZero(progress, lives) ==
    IF {i \in 1..Len(progress) : progress[i] = "_"} = {} THEN "won"
    ELSE IF lives < 0 THEN "lost"
    ELSE "playing"

\* the win/loss check at the end of a loop iteration
Outcome(progress, lives) ==
    IF Unrevealed(progress) = {} THEN "won"
    ELSE IF lives <= 0 THEN "lost"
    ELSE "playing"

InitialHints(d) == IF d # "hard" THEN 1 ELSE 0

\* the round state after an accepted hint that revealed letter h
AfterHint(h) ==
    [guessed   |-> guessed_letters \cup {h},
     incorrect |-> incorrect_guesses,
     progress  |-> Reveal(word_progress, secret_word, h),
     lives     |-> remaining_lives - 1,
     hints     |-> hints_available - 1,
     score     |-> score + SCORE_HINT_PENALTY,
     message   |-> IF \E i \in 1..Len(secret_word) : secret_word[i] = h
                   THEN "hint" ELSE "internal_hint_error",
     correct   |-> correct_count,
     wrong     |-> incorrect_count,
     hinted    |-> hint_count + 1]

\* the round state after a hint request for which provide_hint returned None
AfterNoHint ==
    [guessed   |-> guessed_letters,
     incorrect |-> incorrect_guesses,
     progress  |-> word_progress,
     lives     |-> remaining_lives,
     hints     |-> hints_available,
     score     |-> score,
     message   |-> "no_more_letters",
     correct   |-> correct_count,
     wrong     |-> incorrect_count,
     hinted    |-> hint_count]

\* the round state after an accepted letter guess
AfterGuess(guess) ==
    IF guess \in {secret_word[i] : i \in 1..Len(secret_word)}
    THEN [guessed   |-> guessed_letters \cup {guess},
          incorrect |-> incorrect_guesses,
          progress  |-> Reveal(word_progress, secret_word, guess),
          lives     |-> remaining_lives,
          hints     |-> hints_available,
          score     |-> score + SCORE_CORRECT_GUESS,
          message   |-> "correct",
          correct   |-> correct_count + 1,
          wrong     |-> incorrect_count,
          hinted    |-> hint_count]
    ELSE [guessed   |-> guessed_letters \cup {guess},
          incorrect |-> incorrect_guesses \cup {guess},
          progress  |-> word_progress,
          lives     |-> remaining_lives - 1,
          hints     |-> hints_available,
          score     |-> score + SCORE_INCORRECT_GUESS,
          message   |-> "incorrect",
          correct   |-> correct_count,
          wrong     |-> incorrect_count + 1,
          hinted    |-> hint_count]

\* variant: the bonus is added whenever the round ends
FinalScoreAlwaysBonus(o, s) == s + SCORE_WIN_BONUS

\* variant: a win adds the value of one correct guess
FinalScoreSmallBonus(o, s) == IF o = "won" THEN s + SCORE_CORRECT_GUESS ELSE s

\* variant: only the win branch ends the loop
RoundOverOnlyWin(o) == o = "won"

\* game_over = True and return, in the win and in the loss branch
RoundOver(o) == o \in {"won", "lost"}

\* score reported by a round that ends with outcome o
FinalScore(o, s) == IF o = "won" THEN s + SCORE_WIN_BONUS ELSE s

---------------------------------------------------------------------------
(* Session controller: main *)

NoResult == [over |-> FALSE, won |-> FALSE, score |-> 0]

\* variant: the entry is offered after every round
OfferSaveAlways(result) == TRUE

\* if game_result["won"] or game_result["score"] > 0
OfferSave(result) == result.won \/ result.score > 0

\* the condition under which main prints "your score wasn't high enough"
NotHighEnough(scores, s) ==
    /\ ~(\E i \in 1..Len(scores) : scores[i].score < s)
    /\ Len(scores) >= MAX_HIGH_SCORES

\* str.capitalize on the difficulty names
Capitalize(d) == CASE d = "easy" -> "Easy" [] d = "medium" -> "Medium" [] d = "hard" -> "Hard"

NewEntry(name, result, cat, diff) ==
    [name |-> name, score |-> result.score, category |-> cat,
     difficulty |-> Capitalize(diff)]

\* main returns after catching SystemExit, so the interpreter ends normally
StatusAfterLoadFailure == 0

\* an exception other than SystemExit leaves main: traceback, status 1
StatusAfterTraceback == 1

\* main returns after the break of choice '3'
StatusAfterQuit == 0

---------------------------------------------------------------------------
(* The files on disk when the process starts, and the keyboard *)

\* two categories with a word each, a word before any header, padding,
\* lower case, a comment, an invalid word and a category left empty
RichWords == [exists |-> TRUE, readable |-> TRUE, lines |->
    <<<<"#"," ","p","e","t","s">>,
    <<"d","o","g">>,
    <<"[","c","a","t","e","g","o","r","y"," ","p","e","t","s","]">>,
    <<" ","c","a","t"," ">>,
    <<"c","4","t">>,
    <<>>,
    <<"[","C","A","T","E","G","O","R","Y"," ","M","I","S","C","]">>,
    <<"T","A","C","T">>,
    <<"#","x">>,
    <<"[","C","A","T","E","G","O","R","Y"," ","E","M","P","T","Y","]">>>>]

TinyWords == [exists |-> TRUE, readable |-> TRUE, lines |->
    <<<<"[","C","A","T","E","G","O","R","Y"," ","X","]">>,
    <<"A">>>>]

\* no category header at all
NoHeaderWords == [exists |-> TRUE, readable |-> TRUE, lines |->
    <<<<"C","A","T">>,
    <<"#"," ","n","o"," ","h","e","a","d","e","r">>>>]

\* a category with no valid word, and a header with an empty name
InvalidOnlyWords == [exists |-> TRUE, readable |-> TRUE, lines |->
    <<<<"[","C","A","T","E","G","O","R","Y"," ","X","]">>,
    <<"C","4","T">>,
    <<"[","C","A","T","E","G","O","R","Y"," ","]">>,
    <<"C","A","T">>>>]

MissingWords == [exists |-> FALSE, readable |-> FALSE, lines |-> <<>>]

\* open() or the read raises an error other than FileNotFoundError (no
\* permission, a directory, undecodable bytes)
UnreadableWords == [exists |-> TRUE, readable |-> FALSE, lines |-> TinyWords.lines]

MissingScores == [kind |-> "missing", entries |-> <<>>]

InvalidScores == [kind |-> "invalid", entries |-> <<>>]

\* open() or the read raises an error other than FileNotFoundError and
\* JSONDecodeError
UnreadableScores == [kind |-> "unreadable", entries |-> <<>>]

OldEntry(n, s) == [name |-> n, score |-> s, category |-> <<"X">>, difficulty |-> "Easy"]

\* a file written by an earlier session: MAX_HIGH_SCORES entries, descending
FullScores == [kind |-> "json", entries |->
    [i \in 1..MAX_HIGH_SCORES |->
        IF i < MAX_HIGH_SCORES THEN OldEntry(<<"A","L">>, 90) ELSE OldEntry(<<"B","O">>, 55)]]

Scenarios ==
    {[words |-> RichWords,        scores |-> MissingScores, cap |-> 1],
     [words |-> TinyWords,        scores |-> FullScores,    cap |-> MaxRounds],
     [words |-> TinyWords,        scores |-> InvalidScores, cap |-> 1],
     [words |-> MissingWords,     scores |-> FullScores,    cap |-> 1],
     [words |-> NoHeaderWords,    scores |-> MissingScores, cap |-> 1],
     [words |-> InvalidOnlyWords, scores |-> InvalidScores, cap |-> 1],
     [words |-> UnreadableWords,  scores |-> MissingScores, cap |-> 1],
     [words |-> TinyWords,        scores |-> UnreadableScores, cap |-> 1]}

\* the order in which the bounded keyboard gains letters
LetterPool == <<"C","A","T","Z","B","D","E","F","G","H","I","J","K","L","M",
                "N","O","P","Q","R","S","U","V","W","X","Y">>

Letters == {LetterPool[i] : i \in 1..NumLetters}

ActionInputs ==
    {<<l>> : l \in Letters} \cup
    {<<"c">>, <<"h","i","n","t">>, <<"H","I","N","T">>, <<"C","A">>, <<"4">>, <<" ","C">>, <<>>}

NameInputs == {<<>>, <<" ">>, <<" ","E","D"," ">>}

---------------------------------------------------------------------------
(* Initial states *)

BlankRound ==
    /\ category = <<>>
    /\ difficulty = ""
    /\ secret_word = <<>>
    /\ guessed_letters = {}
    /\ incorrect_guesses = {}
    /\ word_progress = <<>>
    /\ remaining_lives = 0
    /\ hints_available = 0
    /\ score = 0
    /\ correct_count = 0
    /\ incorrect_count = 0
    /\ hint_count = 0

Init ==
    /\ pc = "start"
    /\ \E sc \in Scenarios :
         /\ words_file = sc.words
         /\ hs_file = sc.scores
         /\ round_cap = sc.cap
    /\ load_failed = FALSE
    /\ exit_status = NotExited
    /\ all_categories = EmptyDict
    /\ high_scores = <<>>
    /\ rounds = 0
    /\ BlankRound
    /\ game_result = NoResult
    /\ notice = ""

\* the lines the bounded word-list files are made of: two headers (one in
\* lower case), a header with an empty name, a padded lower-case word, an
\* invalid word and a comment
LinePool ==
    {<<"[","C","A","T","E","G","O","R","Y"," ","X","]">>,
     <<"[","c","a","t","e","g","o","r","y"," ","y","]">>,
     <<"[","C","A","T","E","G","O","R","Y"," ","]">>,
     <<" ","c","a","t"," ">>,
     <<"C","4","T">>,
     <<"#","A">>}

PoolFiles == UNION {[1..n -> LinePool] : n \in 0..MaxLines}

\* the process starts on any word-list file of at most MaxLines pool lines,
\* or on a missing or unreadable one
InitLoad ==
    /\ pc = "start"
    /\ \/ \E ls \in PoolFiles :
             words_file = [exists |-> TRUE, readable |-> TRUE, lines |-> ls]
       \/ words_file \in {MissingWords, UnreadableWords}
    /\ hs_file \in {MissingScores, InvalidScores, UnreadableScores}
    /\ round_cap = 1
    /\ load_failed = FALSE
    /\ exit_status = NotExited
    /\ all_categories = EmptyDict
    /\ high_scores = <<>>
    /\ rounds = 0
    /\ BlankRound
    /\ game_result = NoResult
    /\ notice = ""

---------------------------------------------------------------------------
(* Actions *)

\* main, lines 362-366: load both stores; a SystemExit from load_words is
\* caught and main returns; any other exception leaves main uncaught
LoadData ==
    /\ pc = "start"
    /\ LET r == load_words(words_file) IN
       IF r.exit
       THEN /\ load_failed' = TRUE
            /\ pc' = "exited"
            /\ exit_status' = StatusAfterLoadFailure
            /\ notice' = "load_error"
            /\ UNCHANGED <<all_categories, high_scores>>
       ELSE LET h == load_high_scores(hs_file) IN
            /\ all_categories' = r.categories
            /\ high_scores' = h.entries
            /\ IF h.raised
               THEN /\ pc' = "exited"
                    /\ exit_status' = StatusAfterTraceback
                    /\ notice' = "traceback"
               ELSE /\ pc' = "menu"
                    /\ UNCHANGED <<exit_status, notice>>
            /\ UNCHANGED load_failed
    /\ UNCHANGED <<words_file, hs_file, rounds, round_cap, game_result>>
    /\ UNCHANGED round_vars

\* choice '1' up to the first prompt of the game loop: select_category,
\* select_difficulty (each returns only a valid choice) and random.choice
PlayGame ==
    /\ pc = "menu"
    /\ rounds < round_cap
    /\ \E c \in DOMAIN all_categories, d \in DifficultyNames :
       \E w \in 1..Len(all_categories[c]) :
         /\ category' = c
         /\ difficulty' = d
         /\ secret_word' = all_categories[c][w]
         /\ word_progress' = [i \in 1..Len(all_categories[c][w]) |-> "_"]
         /\ remaining_lives' = DIFFICULTY_LEVELS[d]
         /\ hints_available' = InitialHints(d)
    /\ guessed_letters' = {}
    /\ incorrect_guesses' = {}
    /\ score' = 0
    /\ correct_count' = 0
    /\ incorrect_count' = 0
    /\ hint_count' = 0
    /\ rounds' = rounds + 1
    /\ game_result' = NoResult
    /\ notice' = "starting"
    /\ pc' = "action_prompt"
    /\ UNCHANGED <<store_vars, exit_status, round_cap>>

\* choice '2': display_high_scores up to its input()
ViewHighScores ==
    /\ pc = "menu"
    /\ pc' = "view_scores"
    /\ notice' = IF high_scores = <<>> THEN "no_scores" ELSE "score_table"
    /\ UNCHANGED <<store_vars, exit_status, rounds, round_cap, game_result>>
    /\ UNCHANGED round_vars

\* Enter pressed in display_high_scores
CloseHighScores ==
    /\ pc = "view_scores"
    /\ pc' = "menu"
    /\ notice' = ""
    /\ UNCHANGED <<store_vars, exit_status, rounds, round_cap, game_result>>
    /\ UNCHANGED round_vars

\* choice '3'
Quit ==
    /\ pc = "menu"
    /\ pc' = "exited"
    /\ exit_status' = StatusAfterQuit
    /\ notice' = "goodbye"
    /\ UNCHANGED <<store_vars, rounds, round_cap, game_result>>
    /\ UNCHANGED round_vars

\* any other menu input
InvalidChoice ==
    /\ pc = "menu"
    /\ pc' = "menu"
    /\ notice' = "invalid_choice"
    /\ UNCHANGED <<store_vars, exit_status, rounds, round_cap, game_result>>
    /\ UNCHANGED round_vars

\* the rest of a loop iteration once the action was applied (lines 341-356),
\* and, when play_hangman returns, main up to its next input() (lines 378-395)
Finish(st) ==
    LET o == Outcome(st.progress, st.lives)
        result == [over |-> TRUE, won |-> o = "won", score |-> FinalScore(o, st.score)]
    IN
    /\ guessed_letters' = st.guessed
    /\ incorrect_guesses' = st.incorrect
    /\ word_progress' = st.progress
    /\ remaining_lives' = st.lives
    /\ hints_available' = st.hints
    /\ score' = FinalScore(o, st.score)
    /\ correct_count' = st.correct
    /\ incorrect_count' = st.wrong
    /\ hint_count' = st.hinted
    /\ IF ~RoundOver(o)
       THEN /\ pc' = "action_prompt"
            /\ notice' = st.message
            /\ game_result' = game_result
       ELSE /\ game_result' = result
            /\ IF OfferSave(result)
               THEN IF NotHighEnough(high_scores, result.score)
                    THEN pc' = "return_prompt" /\ notice' = "not_high_enough"
                    ELSE pc' = "name_prompt" /\ notice' = o
               ELSE pc' = "return_prompt" /\ notice' = o
    /\ UNCHANGED <<store_vars, exit_status, rounds, round_cap,
                   category, difficulty, secret_word>>

\* get_player_action rejects the line and prompts again
RejectInput ==
    /\ pc = "action_prompt"
    /\ \E raw \in ActionInputs :
         LET a == get_player_action(raw, guessed_letters \cup incorrect_guesses,
                                    hints_available) IN
         /\ a.kind = "reject"
         /\ notice' = a.why
    /\ UNCHANGED <<pc, store_vars, exit_status, rounds, round_cap, game_result>>
    /\ UNCHANGED round_vars

\* action == "HINT" (lines 302-322)
HintAction ==
    /\ pc = "action_prompt"
    /\ \E raw \in ActionInputs :
         LET a == get_player_action(raw, guessed_letters \cup incorrect_guesses,
                                    hints_available)
             choices == provide_hint(secret_word, guessed_letters) IN
         /\ a.kind = "hint"
         /\ IF choices = {}
            THEN Finish(AfterNoHint)
            ELSE \E h \in choices : Finish(AfterHint(h))

\* a letter guess (lines 324-339)
GuessAction ==
    /\ pc = "action_prompt"
    /\ \E raw \in ActionInputs :
         LET a == get_player_action(raw, guessed_letters \cup incorrect_guesses,
                                    hints_available) IN
         /\ a.kind = "letter"
         /\ Finish(AfterGuess(a.letter))

\* a non-blank name: append the entry and save_high_scores; the write to the
\* file succeeds (ok) or open() raises IOError and the file is left as it was
RecordScore ==
    /\ pc = "name_prompt"
    /\ \E raw \in NameInputs, ok \in BOOLEAN :
         LET name == Strip(raw)
             appended == Append(high_scores,
                                NewEntry(name, game_result, category, difficulty)) IN
         /\ name # <<>>
         /\ high_scores' = SavedList(appended)
         /\ hs_file' = IF ok THEN SavedFile(appended) ELSE hs_file
         /\ notice' = IF ok THEN "saved" ELSE "save_error_then_saved"
    /\ pc' = "return_prompt"
    /\ UNCHANGED <<words_file, load_failed, all_categories, exit_status,
                   rounds, round_cap, game_result>>
    /\ UNCHANGED round_vars

\* a blank name
DeclineName ==
    /\ pc = "name_prompt"
    /\ \E raw \in NameInputs : Strip(raw) = <<>>
    /\ notice' = "not_saved"
    /\ pc' = "return_prompt"
    /\ UNCHANGED <<store_vars, exit_status, rounds, round_cap, game_result>>
    /\ UNCHANGED round_vars

\* Enter pressed after the round (line 395); the round's locals are gone
ReturnToMenu ==
    /\ pc = "return_prompt"
    /\ pc' = "menu"
    /\ category' = <<>>
    /\ difficulty' = ""
    /\ secret_word' = <<>>
    /\ guessed_letters' = {}
    /\ incorrect_guesses' = {}
    /\ word_progress' = <<>>
    /\ remaining_lives' = 0
    /\ hints_available' = 0
    /\ score' = 0
    /\ correct_count' = 0
    /\ incorrect_count' = 0
    /\ hint_count' = 0
    /\ game_result' = NoResult
    /\ notice' = ""
    /\ UNCHANGED <<store_vars, exit_status, rounds, round_cap>>

Next ==
    \/ LoadData
    \/ PlayGame
    \/ ViewHighScores
    \/ CloseHighScores
    \/ Quit
    \/ InvalidChoice
    \/ RejectInput
    \/ HintAction
    \/ GuessAction
    \/ RecordScore
    \/ DeclineName
    \/ ReturnToMenu

Spec == Init /\ [][Next]_vars

\* the session up to the first prompt of a round
NextLoad ==
    \/ LoadData
    \/ PlayGame
    \/ ViewHighScores
    \/ CloseHighScores
    \/ Quit
    \/ InvalidChoice

SpecLoad == InitLoad /\ [][NextLoad]_vars

\* one-round sessions on the one-word file
InitFair ==
    /\ Init
    /\ round_cap = 1
    /\ words_file = TinyWords

\* the player goes on supplying accepted actions while a round is running
SpecFair == InitFair /\ [][Next]_vars /\ WF_vars(GuessAction \/ HintAction)

---------------------------------------------------------------------------
(* Properties *)

\* a step in which the engine applied an accepted action (a letter or a hint)
Applied ==
    /\ pc = "action_prompt"
    /\ correct_count' + incorrect_count' + hint_count'
         = correct_count + incorrect_count + hint_count + 1

Occurrences(word, l) == {i \in 1..Len(word) : word[i] = l}

\* C1: after any accepted action the round is Won if no position is left
\* unrevealed, even when the same action brought lives to 0; it is Lost only
\* when lives <= 0 with a position still unrevealed; otherwise it goes on.
C1_TerminalOrder ==
    [][Applied =>
        IF \A i \in 1..Len(word_progress') : word_progress'[i] # "_"
        THEN game_result'.over /\ game_result'.won /\ pc' # "action_prompt"
        ELSE IF remaining_lives' <= 0
        THEN game_result'.over /\ ~game_result'.won /\ pc' # "action_prompt"
        ELSE pc' = "action_prompt" /\ ~game_result'.over]_vars

\* a hint taken on the last life revealed the last letter: Won with 0 lives
C1_Witness ==
    /\ game_result.over /\ game_result.won
    /\ remaining_lives = 0
    /\ hint_count = 1

\* C2: an accepted letter L that occurs k >= 1 times lowers the number of
\* unrevealed positions by exactly k and leaves lives alone; one that does
\* not occur leaves the buffer alone, joins the incorrect set and costs a life.
C2_LetterGuess ==
    [][\A L \in UpperSet :
        (/\ pc = "action_prompt"
         /\ hint_count' = hint_count
         /\ L \notin guessed_letters
         /\ L \in guessed_letters')
        => LET k == Cardinality(Occurrences(secret_word, L)) IN
           IF k >= 1
           THEN /\ Cardinality(Unrevealed(word_progress'))
                     = Cardinality(Unrevealed(word_progress)) - k
                /\ remaining_lives' = remaining_lives
                /\ incorrect_guesses' = incorrect_guesses
           ELSE /\ word_progress' = word_progress
                /\ incorrect_guesses' = incorrect_guesses \cup {L}
                /\ L \notin incorrect_guesses
                /\ remaining_lives' = remaining_lives - 1]_vars

\* a correct guess of a letter that occurs twice, after an incorrect one
C2_Witness ==
    /\ pc = "action_prompt"
    /\ secret_word = <<"T","A","C","T">>
    /\ word_progress = <<"T","_","_","T">>
    /\ incorrect_guesses = {"Z"}
    /\ hint_count = 0

\* C3: an accepted hint costs exactly one life and one hint, and reveals
\* every occurrence of exactly one letter of the word, a letter that was
\* neither guessed nor hinted before.
C3_Hint ==
    [][(pc = "action_prompt" /\ hint_count' = hint_count + 1) =>
        /\ remaining_lives' = remaining_lives - 1
        /\ hints_available' = hints_available - 1
        /\ \E h \in UpperSet :
             /\ Occurrences(secret_word, h) # {}
             /\ h \notin guessed_letters \cup incorrect_guesses
             /\ \A i \in Occurrences(secret_word, h) : word_progress[i] = "_"
             /\ guessed_letters' = guessed_letters \cup {h}
             /\ \A i \in 1..Len(secret_word) :
                  word_progress'[i] = IF secret_word[i] = h THEN h ELSE word_progress[i]]_vars

\* a hint revealed both occurrences of T after another letter was guessed
C3_Witness ==
    /\ hint_count = 1
    /\ correct_count = 1
    /\ secret_word = <<"T","A","C","T">>
    /\ word_progress = <<"T","A","_","T">>

\* C4: lives remaining never becomes negative.
C4_LivesNonNegative == remaining_lives >= 0

\* a hint taken on the last life that did not finish the word
C4_Witness ==
    /\ game_result.over /\ ~game_result.won
    /\ remaining_lives = 0
    /\ hint_count = 1

\* C5: the reported score is 10 per correct guess, -5 per incorrect guess,
\* -15 per hint, plus 50 exactly when the round was Won.
C5_ScoreAccounting ==
    game_result.over =>
        /\ game_result.score = 10 * correct_count - 5 * incorrect_count - 15 * hint_count
                               + (IF game_result.won THEN 50 ELSE 0)
        /\ game_result.won = (\A i \in 1..Len(word_progress) : word_progress[i] # "_")
        /\ incorrect_count = Cardinality(incorrect_guesses)

\* CAT on easy with guesses C, Z, A, T: Won with 75
C5_Witness ==
    /\ game_result.over /\ game_result.won /\ game_result.score = 75
    /\ secret_word = <<"C","A","T">>
    /\ difficulty = "easy"
    /\ guessed_letters = {"C","Z","A","T"}
    /\ incorrect_guesses = {"Z"}
    /\ remaining_lives = 7
    /\ hint_count = 0

\* C6: a round starts with 1 hint (0 on hard), hints remaining never goes
\* below 0, at most one hint is applied in a round, a hint is applied only
\* from a state with hints remaining > 0, and with none remaining (always so
\* on hard) no input changes the hint count, whatever the lives.
C6_HintGate ==
    /\ [](secret_word # <<>> =>
            /\ hints_available >= 0
            /\ hint_count <= 1
            /\ hints_available + hint_count = (IF difficulty = "hard" THEN 0 ELSE 1))
    /\ [][/\ (pc = "action_prompt" /\ hint_count' > hint_count) => hints_available > 0
          /\ (pc = "action_prompt" /\ hints_available = 0) =>
                (hint_count' = hint_count /\ hints_available' = 0)
          /\ (pc = "menu" /\ pc' = "action_prompt") =>
                (hint_count' = 0 /\ hints_available' = (IF difficulty' = "hard" THEN 0 ELSE 1))]_vars

\* a hint request rejected in a hard round on the last life
C6_Witness ==
    /\ pc = "action_prompt"
    /\ difficulty = "hard"
    /\ notice = "no_hints"
    /\ remaining_lives = 1

\* C7: a fatal word-list load ends the process with a non-zero status, and
\* status 0 occurs only on Quit from the menu.
C7_ExitStatus ==
    pc = "exited" =>
        /\ load_failed => exit_status # 0
        /\ exit_status = 0 => (~load_failed /\ notice = "goodbye")

Min(a, b) == IF a < b THEN a ELSE b

Desc(scores) == \A i \in 1..(Len(scores) - 1) : scores[i].score >= scores[i + 1].score

CountIn(scores, e) == Cardinality({i \in 1..Len(scores) : scores[i] = e})

\* the table holds MAX_HIGH_SCORES entries or more
TableFull == Len(high_scores) >= 10

\* s would not place in the top 10 among the existing scores
WouldNotPlace(s) ==
    Cardinality({i \in 1..Len(high_scores) : high_scores[i].score >= s}) >= 10

\* C8: after a round that was won or scored > 0 the name prompt is skipped
\* exactly when the table is full and the score would not place in the top
\* 10 among the existing scores.
C8_SkipIffFullAndNotPlacing ==
    (game_result.over /\ (game_result.won \/ game_result.score > 0)) =>
        /\ pc = "name_prompt" => ~(TableFull /\ WouldNotPlace(game_result.score))
        /\ (pc = "return_prompt" /\ notice = "not_high_enough") =>
              (TableFull /\ WouldNotPlace(game_result.score))
        /\ pc = "return_prompt" =>
              notice \in {"not_high_enough", "saved", "save_error_then_saved", "not_saved"}

\* kept holds the n highest-scoring entries of passed, in descending order
IsTopOf(kept, passed, n) ==
    /\ Len(kept) = n
    /\ Desc(kept)
    /\ \A i \in 1..Len(kept) : CountIn(kept, kept[i]) <= CountIn(passed, kept[i])
    /\ \A i \in 1..Len(passed) :
         CountIn(passed, passed[i]) > CountIn(kept, passed[i]) =>
            \A j \in 1..Len(kept) : kept[j].score >= passed[i].score

\* C9: a successful save of a list of n entries leaves min(n, 10) entries
\* in the file, in descending order of score, the highest-scoring ones of
\* the list passed in.
C9_SaveTopTen ==
    [][(pc = "name_prompt" /\ notice' = "saved") =>
        \E raw \in NameInputs :
            /\ Strip(raw) # <<>>
            /\ LET passed == Append(high_scores,
                                    NewEntry(Strip(raw), game_result, category, difficulty))
               IN /\ hs_file'.kind = "json"
                  /\ IsTopOf(hs_file'.entries, passed, Min(Len(passed), 10))]_vars

\* eleven entries were passed in and the new one displaced the lowest
C9_Witness ==
    /\ notice = "saved"
    /\ Len(high_scores) = 11
    /\ Len(hs_file.entries) = 10
    /\ hs_file.entries[10].score = game_result.score
    /\ high_scores[11].score = 55

\* C10: after every save the session's list is in descending score order and
\* holds at most 10 entries.
C10_SessionListTruncated ==
    notice \in {"saved", "save_error_then_saved"} =>
        /\ Desc(high_scores)
        /\ Len(high_scores) <= 10


\* C11: for every word-list file the mapping returned by load_words holds
\* only categories with at least one word, and every word in it consists
\* solely of the letters A-Z.
C11_LoadedWordsValid ==
    (pc # "start" /\ ~load_failed) =>
        \A c \in DOMAIN all_categories :
            /\ all_categories[c] # <<>>
            /\ \A w \in 1..Len(all_categories[c]) :
                 /\ all_categories[c][w] # <<>>
                 /\ \A i \in 1..Len(all_categories[c][w]) :
                      all_categories[c][w][i] \in
                        {"A","B","C","D","E","F","G","H","I","J","K","L","M",
                         "N","O","P","Q","R","S","T","U","V","W","X","Y","Z"}

\* a file with a padded lower-case word, a second category holding only an
\* invalid word, loaded as the single category X
C11_Witness ==
    /\ pc = "menu"
    /\ words_file.lines = <<<<"[","C","A","T","E","G","O","R","Y"," ","X","]">>,
                            <<" ","c","a","t"," ">>,
                            <<"[","c","a","t","e","g","o","r","y"," ","y","]">>,
                            <<"C","4","T">>>>
    /\ DOMAIN all_categories = {<<"X">>}
    /\ all_categories[<<"X">>] = <<<<"C","A","T">>>>


\* the line, trimmed and upper-cased, reads [CATEGORY <name>]
IsHeaderLine(raw) ==
    /\ StartsWith(Upper(Strip(raw)), CategoryPrefix)
    /\ EndsWith(Upper(Strip(raw)), <<"]">>)

HeaderName(raw) ==
    Strip(SubSeq(Upper(Strip(raw)), Len(CategoryPrefix) + 1, Len(Upper(Strip(raw))) - 1))

\* the line is a word of letters only (no header, no comment, not blank)
IsWordLine(raw) ==
    /\ Upper(Strip(raw)) # <<>>
    /\ ~IsHeaderLine(raw)
    /\ \A i \in 1..Len(Upper(Strip(raw))) : Upper(Strip(raw))[i] \in UpperSet

HasHeader(lines) == \E i \in 1..Len(lines) : IsHeaderLine(lines[i])

\* some word line follows a header with a name, with no header in between
\* and no later header of the same name (which would empty the category)
RetainsWord(lines) ==
    \E i \in 1..Len(lines), j \in 1..Len(lines) :
        /\ i < j
        /\ IsHeaderLine(lines[i])
        /\ HeaderName(lines[i]) # <<>>
        /\ IsWordLine(lines[j])
        /\ \A k \in (i + 1)..(j - 1) : ~IsHeaderLine(lines[k])
        /\ \A k \in (j + 1)..Len(lines) :
             IsHeaderLine(lines[k]) => HeaderName(lines[k]) # HeaderName(lines[i])

\* the menu was shown
MenuReached == pc # "start" /\ ~(pc = "exited" /\ notice # "goodbye")

C13_MissingOrInvalidScores ==
    [][(/\ pc = "start"
        /\ hs_file.kind \in {"missing", "invalid"}
        /\ ~load_failed')
       => /\ pc' = "menu"
          /\ high_scores' = <<>>
          /\ exit_status' = NotExited
          /\ notice' # "traceback"]_vars

\* the player views the empty table of a session started on invalid JSON
C13_Witness ==
    /\ pc = "view_scores"
    /\ notice = "no_scores"
    /\ hs_file.kind = "invalid"
    /\ high_scores = <<>>


\* C14: every letter the input layer hands to the engine is a single letter
\* A-Z that is in neither the guessed set (which holds the hinted letters)
\* nor the incorrect set, so no letter is applied twice in a round and a
\* hinted letter is never scored as a guess.
C14_LetterInputs ==
    /\ [](secret_word # <<>> =>
            /\ guessed_letters \subseteq UpperSet
            /\ incorrect_guesses \subseteq guessed_letters
            /\ correct_count + incorrect_count + hint_count = Cardinality(guessed_letters))
    /\ [][(Applied /\ hint_count' = hint_count) =>
            \E L \in UpperSet :
                /\ L \notin guessed_letters \cup incorrect_guesses
                /\ guessed_letters' = guessed_letters \cup {L}]_vars

\* the letter given by the hint was typed as a guess and rejected
C14_Witness ==
    /\ pc = "action_prompt"
    /\ notice = "already_guessed"
    /\ hint_count = 1
    /\ correct_count = 0
    /\ incorrect_count = 0


DistinctLetters(word) == {word[i] : i \in 1..Len(word)}

\* C15: while the player keeps supplying accepted actions a round reaches
\* Won or Lost, after at most 26 letter guesses and 1 hint (no more misses
\* and hints than lives, no more hits and hints than letters in the word),
\* and no action is applied to a round that is Won or Lost.
C15_RoundTerminates ==
    /\ (pc = "action_prompt") ~> game_result.over
    /\ [](secret_word # <<>> =>
            /\ correct_count + incorrect_count <= 26
            /\ hint_count <= 1
            /\ incorrect_count + hint_count <= DIFFICULTY_LEVELS[difficulty]
            /\ correct_count + hint_count <= Cardinality(DistinctLetters(secret_word)))
    /\ [][/\ Applied =>
               (~game_result.over /\ remaining_lives > 0 /\ Unrevealed(word_progress) # {})
          /\ game_result.over =>
               \/ pc' = "menu"
               \/ <<correct_count, incorrect_count, hint_count, guessed_letters,
                    word_progress, remaining_lives, game_result>>'
                  = <<correct_count, incorrect_count, hint_count, guessed_letters,
                      word_progress, remaining_lives, game_result>>]_vars

\* a medium round lost on the last of its 6 lives
C15_Witness ==
    /\ game_result.over /\ ~game_result.won
    /\ difficulty = "medium"
    /\ incorrect_count = 6
    /\ remaining_lives = 0
    /\ pc = "return_prompt"


\* C16: position i of the reveal buffer shows the word's letter at i if
\* that letter was guessed correctly or given by a hint, and '_' otherwise;
\* no revealed position is hidden again.
C16_RevealBuffer ==
    /\ [](secret_word # <<>> =>
            /\ Len(word_progress) = Len(secret_word)
            /\ \A i \in 1..Len(secret_word) :
                 word_progress[i] =
                    IF secret_word[i] \in guessed_letters \ incorrect_guesses
                    THEN secret_word[i] ELSE "_")
    /\ [][(secret_word # <<>> /\ secret_word' # <<>>) =>
            \A i \in 1..Len(secret_word) :
                word_progress[i] # "_" => word_progress'[i] = word_progress[i]]_vars

\* C revealed by a guess and T by the hint, A still hidden, after a miss
C16_Witness ==
    /\ pc = "action_prompt"
    /\ secret_word = <<"C","A","T">>
    /\ word_progress = <<"C","_","T">>
    /\ hint_count = 1
    /\ correct_count = 1
    /\ incorrect_guesses = {"Z"}


\* C17: once loaded, the high-score list and the high-score file change only
\* when the player enters a non-blank name after a round that was won or
\* scored > 0; viewing the scores, an invalid menu choice, a round lost with
\* score <= 0, a skipped offer and a blank name leave both unchanged.
C17_ScoresFrame ==
    [][(pc # "start" /\ (high_scores' # high_scores \/ hs_file' # hs_file)) =>
        /\ pc = "name_prompt"
        /\ game_result.over
        /\ (game_result.won \/ game_result.score > 0)
        /\ notice' \in {"saved", "save_error_then_saved"}
        /\ game_result' = game_result]_vars

\* a blank name after a won round against a full table: nothing changed
C17_Witness ==
    /\ pc = "return_prompt"
    /\ notice = "not_saved"
    /\ game_result.won
    /\ hs_file = FullScores
    /\ high_scores = FullScores.entries


\* C18: whenever a hint can be accepted in a running round the word still
\* has an unrevealed letter, so provide_hint returns a letter of the word:
\* neither "No more letters to hint" nor "Internal hint error" is ever shown.
C18_HintBranchesDead ==
    /\ (pc = "action_prompt" /\ HintAllowed(hints_available)) =>
          /\ provide_hint(secret_word, guessed_letters) # {}
          /\ provide_hint(secret_word, guessed_letters)
                \subseteq {secret_word[i] : i \in Unrevealed(word_progress)}
    /\ notice \notin {"no_more_letters", "internal_hint_error"}

\* a hint was accepted with two letters unrevealed and the round goes on
C18_Witness ==
    /\ pc = "action_prompt"
    /\ notice = "hint"
    /\ secret_word = <<"C","A","T">>
    /\ correct_count = 1
    /\ incorrect_count = 0
    /\ hint_count = 1


\* C19: "High score saved!" is shown only when the list with the new entry
\* was written to the high-score file; after a failed write the file is as
\* it was and the confirmation is not shown.
C19_SavedOnlyIfWritten ==
    [][(pc = "name_prompt" /\ notice' \in {"saved", "save_error_then_saved"}) =>
          hs_file' = SavedFile(high_scores')]_vars


\* C20: a round that ends won reports a score of at least 0, so a result
\* that is offered for saving without a positive score has score exactly 0.
C20_WonScoreNonNegative ==
    /\ (game_result.over /\ game_result.won) => game_result.score >= 0
    /\ (game_result.over /\ OfferSave(game_result) /\ ~(game_result.score > 0)) =>
          /\ game_result.won
          /\ game_result.score = 0

\* the lowest winning score: seven misses on easy, then the hint spends the
\* last life and reveals the only letter
C20_Witness ==
    /\ game_result.over
    /\ game_result.won
    /\ game_result.score = 0
    /\ difficulty = "easy"
    /\ incorrect_count = 7
    /\ hint_count = 1
    /\ correct_count = 0
    /\ remaining_lives = 0

====
